---------------------------- MODULE Spec2Model ----------------------------
(***************************************************************************)
(* The Seymour screen-masking integration: the config-entry life cycle     *)
(* (__init__.py), the entity and service handlers (remote.py, button.py,   *)
(* select.py) and the config flow (config_flow.py).  The device facade     *)
(* pySeymour.device is not part of the sources at hand; its operations are *)
(* modelled from the design document and are marked as such in the map.    *)
(***************************************************************************)
EXTENDS Integers, Sequences, FiniteSets, TLC

(***************************************************************************)
(* Bounds of the model.                                                    *)
(***************************************************************************)
MaxRatios == 2          \* largest ratio table the device reports
MaxMotors == 1          \* largest motor count a position report carries
MaxFlowConns == 2       \* connections one port may accumulate from flows
MaxUuid == 2            \* uuid4() values drawn by the flows
MaxCallers == 3         \* overlapping callers of the device's queries
MaxCommands == 2        \* commands in one remote.send_command call

(***************************************************************************)
(* Program constants.                                                      *)
(***************************************************************************)
ReservedLo == 990       \* range(990, 1000)
ReservedHi == 999
WaitLimit == 20         \* timeout / interval = 10 / 0.5 sleeps
DisconnectParams == 0   \* async def disconnect() -> None
CallbackParams == 1     \* def seymour_update_callback(message: str)
ListenerArgs == 1       \* an event listener is called with the Event

None == <<>>
Some(x) == <<x>>

Labels == {"16:9", "2.35:1"}
Reserved == ReservedLo..ReservedHi

\* MOTOR_IDS of pySeymour.constants: the motor letters the schemas accept.
MOTOR_IDS == {"T", "B", "L", "R"}

\* mask_ids of the controllers the model runs against.
MaskIdChoices == {<<"T", "B">>}

\* The ratio tables a settings reply may carry: keys 1..n, each with a label
\* (the first ratio is the screen's native 16:9).
RatioTables ==
    {t \in UNION {[1..n -> Labels] : n \in 1..MaxRatios} : t[1] = "16:9"}

\* What the wire does with a request that was written.
Replies == {"ok", "timeout", "lost"}

Range(s) == {s[i] : i \in DOMAIN s}

\* Python's exception hierarchy: ConnectionError, TimeoutError and pyserial's
\* SerialException are OSErrors; UnicodeDecodeError is a ValueError; the
\* facade's ValidationError is caught as a ValueError.
IsInstance(e, cls) ==
    \/ e = cls
    \/ cls = "OSError" /\ e \in {"ConnectionError", "TimeoutError",
                                 "SerialException"}
    \/ cls = "ValueError" /\ e \in {"ValidationError", "UnicodeDecodeError"}

\* Calling a function of `params` positional parameters with `nargs`.
Call(params, nargs) == IF params = nargs THEN "ok" ELSE "TypeError"

VARIABLES
    pc,                       \* position of async_setup_entry / entry state
    elapsed,                  \* sleeps performed by the readiness wait
    setup_result,             \* what async_setup_entry returned
    setup_error,              \* the error an initial operation raised
    hass_data,                \* hass.data[DOMAIN][entry_id]
    stop_listener,            \* EVENT_HOMEASSISTANT_STOP listener registered
    stop_fired,               \* the stop event has been fired
    platforms,                \* platforms were forwarded
    ratio_services,           \* keys r with a set_aspect_ratio_<r> service
    update_options,           \* vol.In(options) of the update_ratio service
    transport,                \* the device's Transport
    handle,                   \* the OS handle of the serial port is held
    system_info,              \* device.system_info
    mask_ratio_settings,      \* device.mask_ratio_settings
    current_motor_positions,  \* device.current_motor_positions
    current_ratio_status,     \* device.current_ratio_status
    last,                     \* the most recent handler invocation
    entries,                  \* config entries created by the flows
    usb_flows,                \* USB flows waiting at the confirm form
    flow_conns,               \* per port: connections opened by flows
    entry_conns,              \* per port: connections opened by entry setup
    probe,                    \* port whose raw handle the USB probe holds
    setup_done,               \* entries whose setup has run
    uuids,                    \* uuid4() values drawn so far
    flow_result,              \* how the most recent flow step ended
    attr_is_on,               \* the jog switch's _attr_is_on
    toggled,                  \* the switch handlers that last completed
    targets,                  \* entities connected to SEYMOUR_UPDATE_SIGNAL
    entity_state,             \* per entity: new, added to hass, removed
    refreshed,                \* what the most recent dispatch ran
    notified,                 \* the most recent invocation of the callback
    pending,                  \* the Router's table of pending requests
    requests,                 \* per caller: the request it issued, its result
    probe_io,                 \* what the USB probe of the last flow step wrote and read
    sent,                     \* the most recent remote.send_command call
    sensors,                  \* the descriptions sensor setup created entities for
    reading                   \* the most recent read of a sensor's native_value

lifeVars == <<pc, elapsed, setup_result, setup_error, hass_data, stop_listener,
              stop_fired, platforms, ratio_services, update_options, transport,
              handle, system_info, mask_ratio_settings,
              current_motor_positions, current_ratio_status, last>>
flowVars == <<entries, usb_flows, flow_conns, entry_conns, probe, setup_done,
              uuids, flow_result, probe_io>>
entityVars == <<attr_is_on, toggled>>
dispatchVars == <<targets, entity_state, refreshed, notified>>
routerVars == <<pending, requests>>
remoteVars == <<sent>>
sensorVars == <<sensors, reading>>
platformVars == <<remoteVars, sensorVars>>
sideVars == <<entityVars, dispatchVars, routerVars, platformVars>>
vars == <<lifeVars, flowVars, sideVars>>

stateModel == <<system_info, mask_ratio_settings, current_motor_positions,
                current_ratio_status>>

(***************************************************************************)
(* The device facade (pySeymour.device), modelled from the design          *)
(* document.  Every operation takes what the wire answers (`reply`) and    *)
(* returns its result together with the state it leaves behind.            *)
(***************************************************************************)
Outcome(res, mrs, pos, rst, tr, w) ==
    [res |-> res, mrs |-> mrs, pos |-> pos, rst |-> rst, transport |-> tr,
     writes |-> w]

\* A failed operation retains the cached state.
Failed(res, tr, w) ==
    Outcome(res, mask_ratio_settings, current_motor_positions,
            current_ratio_status, tr, w)

\* Build, submit, await: a closed or failed transport surfaces as
\* ConnectionError without a write; a written request is answered, times out
\* (the link is presumed alive) or loses the link.
Submit(reply, mrs, pos, rst) ==
    IF transport # "open" THEN Failed("ConnectionError", transport, 0)
    ELSE CASE reply = "ok" -> Outcome("ok", mrs, pos, rst, "open", 1)
           [] reply = "timeout" -> Failed("TimeoutError", "open", 1)
           [] OTHER -> Failed("ConnectionError", "failed", 1)

RatioKeys == DOMAIN mask_ratio_settings.ratios
RatioDomain == RatioKeys \cup Reserved

\* motor_id "" stands for the omitted argument: all motors.
MotorKnown(motor_id) == motor_id = "" \/ motor_id \in Range(system_info.mask_ids)

get_settings_info(reply, table) ==
    Submit(reply,
           [mask_ratio_settings EXCEPT !.ratios = table, !.num_ratios = Len(table)],
           current_motor_positions, current_ratio_status)

\* The status reply names the ratio that is active on the device: the one
\* last selected, ratio 1 as long as none was.
ActiveRatio ==
    IF mask_ratio_settings.current_ratio # None
    THEN mask_ratio_settings.current_ratio ELSE Some(1)

get_status(reply) ==
    Submit(reply, mask_ratio_settings, current_motor_positions,
           [current_ratio_status EXCEPT !.ratio_id = ActiveRatio])

get_positions(reply, n) ==
    Submit(reply, mask_ratio_settings,
           [current_motor_positions EXCEPT !.num_motors = n],
           current_ratio_status)

get_system_info(reply) ==
    Submit(reply, mask_ratio_settings, current_motor_positions,
           current_ratio_status)

select_ratio(ratio_id, reply) ==
    IF ratio_id \notin RatioKeys THEN Failed("ValidationError", transport, 0)
    ELSE Submit(reply,
                [mask_ratio_settings EXCEPT !.current_ratio = Some(ratio_id)],
                current_motor_positions,
                [current_ratio_status EXCEPT !.ratio_id = Some(ratio_id)])

move_motors(direction, motor_id, reply) ==
    IF direction \notin {"in", "out"} \/ ~MotorKnown(motor_id)
    THEN Failed("ValidationError", transport, 0)
    ELSE Submit(reply, mask_ratio_settings, current_motor_positions,
                current_ratio_status)

\* home, halt and calibrate share the all-or-one-motor addressing.
motor_command(motor_id, reply) ==
    IF ~MotorKnown(motor_id) THEN Failed("ValidationError", transport, 0)
    ELSE Submit(reply, mask_ratio_settings, current_motor_positions,
                current_ratio_status)

\* update(ratio_id=None): the given ratio id, else the selected one.
update(ratio_id, reply) ==
    LET target == IF ratio_id # None THEN ratio_id
                  ELSE mask_ratio_settings.current_ratio
    IN  IF target = None \/ target[1] \notin RatioDomain
        THEN Failed("ValidationError", transport, 0)
        ELSE Submit(reply, mask_ratio_settings, current_motor_positions,
                    current_ratio_status)

\* close(): idempotent, whatever the transport's state; releases the handle.
close_open_only ==
    IF transport = "open"
    THEN [res |-> "ok", transport |-> "closed", handle |-> FALSE]
    ELSE [res |-> "ConnectionError", transport |-> transport, handle |-> handle]
close == [res |-> "ok", transport |-> "closed", handle |-> FALSE]

(***************************************************************************)
(* The record of the most recent handler invocation: which device          *)
(* operation it awaited and with what result, what escaped to its caller,  *)
(* how many transport writes it caused, and whether the State Model        *)
(* changed, and whether the handler itself wrote one of its fields.        *)
(***************************************************************************)
NoCall ==
    [handler |-> "none", motor |-> "", ratio |-> None, label |-> "",
     devop |-> "none", devres |-> "notcalled", escaped |-> "none",
     logged |-> FALSE, writes |-> 0, changed |-> FALSE, direct |-> FALSE,
     pre_transport |-> "none"]

Changes(o) ==
    <<o.mrs, o.pos, o.rst>> #
        <<mask_ratio_settings, current_motor_positions, current_ratio_status>>

Apply(o) ==
    /\ mask_ratio_settings' = o.mrs
    /\ current_motor_positions' = o.pos
    /\ current_ratio_status' = o.rst
    /\ transport' = o.transport

\* try/except around an awaited operation: what propagates to the caller.
Escapes(res, caught) ==
    IF res = "ok" \/ \E cls \in caught : IsInstance(res, cls) THEN "none"
    ELSE res
Logged(res, caught) == res # "ok" /\ \E cls \in caught : IsInstance(res, cls)

\* The invocation of device operation `op` with outcome `o` by `handler`.
Invocation(handler, op, o, caught) ==
    [NoCall EXCEPT !.handler = handler, !.devop = op, !.devres = o.res,
                   !.escaped = Escapes(o.res, caught),
                   !.logged = Logged(o.res, caught),
                   !.writes = o.writes, !.changed = Changes(o)]

hassVars == <<hass_data, stop_listener, stop_fired, platforms, ratio_services,
              update_options>>
setupVars == <<pc, elapsed, setup_result, setup_error>>

(***************************************************************************)
(* async_setup_entry, one action per await.                                *)
(***************************************************************************)
\* except TimeoutError / except OSError around the initial operations.
SetupCatchesTimeoutOnly(e) == IsInstance(e, "TimeoutError")
SetupCatches(e) == IsInstance(e, "TimeoutError") \/ IsInstance(e, "OSError")

\* An initial operation raised `e`: return False, or let it propagate.
SetupAbort(e) ==
    /\ pc' = IF SetupCatches(e) THEN "setup_failed" ELSE "setup_raised"
    /\ setup_result' = IF SetupCatches(e) THEN "False" ELSE "raised"
    /\ setup_error' = e
    /\ UNCHANGED elapsed

SetupAdvance(next) ==
    /\ pc' = next
    /\ UNCHANGED <<elapsed, setup_result, setup_error>>

\* device = Device(port, callback); device.system_info = SystemInfo(**entry.data)
SetupStart ==
    /\ pc = "not_loaded"
    /\ \E m \in MaskIdChoices :
         system_info' = [serial_number |-> "SN1", mask_ids |-> m]
    /\ last' = [NoCall EXCEPT !.handler = "async_setup_entry", !.direct = TRUE,
                              !.changed = TRUE]
    /\ SetupAdvance("connect")
    /\ UNCHANGED <<hassVars, transport, handle, mask_ratio_settings,
                   current_motor_positions, current_ratio_status, flowVars, sideVars>>

\* await device.connect()
SetupConnect ==
    /\ pc = "connect"
    /\ \E res \in {"ok", "TimeoutError", "ConnectionError", "OSError"} :
         /\ IF res = "ok"
            THEN transport' = "open" /\ handle' = TRUE
                 /\ SetupAdvance("get_settings_info")
            ELSE UNCHANGED <<transport, handle>> /\ SetupAbort(res)
         /\ last' = [NoCall EXCEPT !.handler = "async_setup_entry",
                                   !.devop = "connect", !.devres = res]
    /\ UNCHANGED <<hassVars, stateModel, flowVars, sideVars>>

\* One of the three initial queries, with outcome `o`.
SetupQuery(op, o, next) ==
    /\ Apply(o)
    /\ IF o.res = "ok" THEN SetupAdvance(next) ELSE SetupAbort(o.res)
    /\ last' = [Invocation("async_setup_entry", op, o, {}) EXCEPT
                   !.escaped = IF o.res = "ok" \/ SetupCatches(o.res)
                               THEN "none" ELSE o.res,
                   !.logged = o.res # "ok" /\ SetupCatches(o.res)]
    /\ UNCHANGED <<hassVars, handle, system_info, flowVars, sideVars>>

\* await device.get_settings_info()
SetupSettings ==
    /\ pc = "get_settings_info"
    /\ \E reply \in Replies, table \in RatioTables :
         SetupQuery("get_settings_info", get_settings_info(reply, table),
                    "get_status")

\* await device.get_status()
SetupStatus ==
    /\ pc = "get_status"
    /\ \E reply \in Replies :
         SetupQuery("get_status", get_status(reply), "get_positions")

\* await device.get_positions()
SetupPositions ==
    /\ pc = "get_positions"
    /\ \E reply \in Replies, n \in 0..MaxMotors :
         SetupQuery("get_positions", get_positions(reply, n), "wait")

\* `not device.current_motor_positions.num_motors`
NotReadyNever == FALSE
NotReady == current_motor_positions.num_motors = 0

\* while not num_motors and elapsed_time < timeout: await asyncio.sleep(interval)
SetupSleep ==
    /\ pc = "wait"
    /\ NotReady
    /\ elapsed < WaitLimit
    /\ elapsed' = elapsed + 1
    /\ UNCHANGED <<pc, setup_result, setup_error, hassVars, transport, handle,
                   stateModel, last, flowVars, sideVars>>

\* if not num_motors: return False
SetupTimedOut ==
    /\ pc = "wait"
    /\ NotReady
    /\ elapsed >= WaitLimit
    /\ pc' = "setup_failed"
    /\ setup_result' = "False"
    /\ UNCHANGED <<elapsed, setup_error, hassVars, transport, handle,
                   stateModel, last, flowVars, sideVars>>

\* hass.data[...] = {...}; the disconnect handler; the stop listener; the
\* platforms, of which remote registers the per-ratio and update services.
SetupRegister ==
    /\ pc = "wait"
    /\ ~NotReady
    /\ pc' = "loaded"
    /\ setup_result' = "True"
    /\ hass_data' = [present |-> TRUE, disconnect |-> TRUE]
    /\ stop_listener' = TRUE
    /\ platforms' = TRUE
    /\ ratio_services' = RatioKeys
    /\ update_options' = RatioKeys \cup Reserved
    /\ elapsed' = 0            \* the coroutine's locals end with it
    /\ UNCHANGED <<setup_error, stop_fired, transport, handle,
                   stateModel, last, flowVars, sideVars>>

(***************************************************************************)
(* The entity and service handlers of a loaded entry.                      *)
(***************************************************************************)
\* The entry is loaded and Home Assistant is running.
Loaded == pc = "loaded" /\ ~stop_fired

ButtonKeys ==
    {"calibrate", "halt", "home", "move_motors_in", "move_motors_out",
     "positions", "settings_info", "status", "system_info", "update_ratio"}

\* BUTTONS: the press_action of each description.
press_action(key, reply, table, n) ==
    CASE key = "calibrate" -> motor_command("", reply)
      [] key = "halt" -> motor_command("", reply)
      [] key = "home" -> motor_command("", reply)
      [] key = "move_motors_in" -> move_motors("in", "", reply)
      [] key = "move_motors_out" -> move_motors("out", "", reply)
      [] key = "positions" -> get_positions(reply, n)
      [] key = "settings_info" -> get_settings_info(reply, table)
      [] key = "status" -> get_status(reply)
      [] key = "system_info" -> get_system_info(reply)
      [] OTHER -> update(None, reply)

\* SeymourButton.async_press: awaits the press action, no try/except.
async_press(key) ==
    /\ Loaded
    /\ \E reply \in Replies,
          table \in IF key = "settings_info" THEN RatioTables
                    ELSE {mask_ratio_settings.ratios},
          n \in IF key = "positions" THEN 1..MaxMotors ELSE {0} :
         LET o == press_action(key, reply, table, n)
         IN  /\ Apply(o)
             /\ last' = Invocation("async_press", key, o, {})
    /\ UNCHANGED <<setupVars, hassVars, handle, system_info, flowVars, sideVars>>

\* The first key of the ratio table whose label is `option`.
MatchingKeys(option) ==
    {k \in RatioKeys : mask_ratio_settings.ratios[k] = option}
FirstMatch(option) ==
    CHOOSE k \in MatchingKeys(option) : \A j \in MatchingKeys(option) : k <= j

\* SeymourSelect.async_select_option of the "ratio" select.
async_select_option(option) ==
    /\ Loaded
    /\ IF MatchingKeys(option) = {}
       THEN /\ last' = [NoCall EXCEPT !.handler = "async_select_option",
                                      !.label = option]
            /\ UNCHANGED <<transport, mask_ratio_settings,
                           current_motor_positions, current_ratio_status>>
       ELSE \E reply \in Replies :
              LET o == select_ratio(FirstMatch(option), reply)
              IN  /\ Apply(o)
                  /\ last' = [Invocation("async_select_option", "select_ratio",
                                         o, {})
                                 EXCEPT !.label = option,
                                        !.ratio = Some(FirstMatch(option))]
    /\ UNCHANGED <<setupVars, hassVars, handle, system_info, flowVars, sideVars>>

\* The ratio key the service set_aspect_ratio_<r> passes on: the loop
\* variable is bound as a default argument when the service is defined.
LateBoundRatioKey(r) ==
    CHOOSE k \in ratio_services : \A j \in ratio_services : j <= k
BoundRatioKey(r) == r

\* set_aspect_ratio_<r>: entity.async_send_command("set_aspect_ratio", AR=key)
set_aspect_ratio(r) ==
    /\ Loaded
    /\ r \in ratio_services
    /\ IF BoundRatioKey(r) = 0
       THEN /\ last' = [NoCall EXCEPT !.handler = "set_aspect_ratio",
                                      !.ratio = Some(r),
                                      !.escaped = "HomeAssistantError"]
            /\ UNCHANGED <<transport, mask_ratio_settings,
                           current_motor_positions, current_ratio_status>>
       ELSE \E reply \in Replies :
              LET o == select_ratio(BoundRatioKey(r), reply)
              IN  /\ Apply(o)
                  /\ last' = [Invocation("set_aspect_ratio", "select_ratio", o,
                                         {"ConnectionError", "ValueError",
                                          "HomeAssistantError"})
                                 EXCEPT !.ratio = Some(r)]
    /\ UNCHANGED <<setupVars, hassVars, handle, system_info, flowVars, sideVars>>

\* A service call the schema rejects never reaches its handler.
Rejected(handler, motor_id, ratio) ==
    /\ last' = [NoCall EXCEPT !.handler = handler, !.escaped = "Invalid",
                              !.motor = motor_id, !.ratio = ratio]
    /\ UNCHANGED <<transport, mask_ratio_settings, current_motor_positions,
                   current_ratio_status>>

\* The device call of move_motors_service.
MoveMotorsCallAll(direction, motor_id, reply) == move_motors(direction, "", reply)
MoveMotorsCall(direction, motor_id, reply) ==
    move_motors(direction, motor_id, reply)

\* SeymourRemote.move_motors_service, behind its schema.
move_motors_service(direction, motor_id, movement_code) ==
    /\ Loaded
    /\ IF direction \notin {"in", "out"} \/ motor_id \notin MOTOR_IDS
       THEN Rejected("move_motors_service", motor_id, None)
       ELSE \E reply \in Replies :
              LET o == MoveMotorsCall(direction, motor_id, reply)
                  mrs == [o.mrs EXCEPT !.current_movement_code = movement_code]
              IN  /\ Apply([o EXCEPT !.mrs = mrs])
                  /\ last' = [Invocation("move_motors_service", "move_motors",
                                         [o EXCEPT !.mrs = mrs],
                                         {"ConnectionError", "ValueError"})
                                 EXCEPT !.motor = motor_id, !.direct = TRUE]
    /\ UNCHANGED <<setupVars, hassVars, handle, system_info, flowVars, sideVars>>

\* home_motors_service, halt_motors_service, calibrate_motors_service.
motor_service(name, motor_id) ==
    /\ Loaded
    /\ IF motor_id \notin MOTOR_IDS
       THEN Rejected(name, "", None)
       ELSE \E reply \in Replies :
              LET o == motor_command(motor_id, reply)
              IN  /\ Apply(o)
                  /\ last' = Invocation(name, name, o,
                                        {"ConnectionError", "ValueError"})
    /\ UNCHANGED <<setupVars, hassVars, handle, system_info, flowVars, sideVars>>

\* SeymourRemote.update_ratio_service, behind vol.In(options).
update_ratio_service(ratio_id) ==
    /\ Loaded
    /\ IF ratio_id \notin update_options
       THEN Rejected("update_ratio_service", "", Some(ratio_id))
       ELSE \E reply \in Replies :
              LET o == update(Some(ratio_id), reply)
              IN  /\ Apply(o)
                  /\ last' = [Invocation("update_ratio_service", "update", o,
                                         {"ConnectionError", "ValueError"})
                                 EXCEPT !.ratio = Some(ratio_id)]
    /\ UNCHANGED <<setupVars, hassVars, handle, system_info, flowVars, sideVars>>

(***************************************************************************)
(* The environment of a connected device.                                  *)
(***************************************************************************)
\* An unsolicited position report is routed to the State Model.
UnsolicitedPositions(n) ==
    /\ transport = "open"
    /\ pc \in {"wait", "loaded"}
    /\ current_motor_positions' = [current_motor_positions EXCEPT !.num_motors = n]
    /\ last' = [NoCall EXCEPT !.handler = "unsolicited"]
    /\ UNCHANGED <<setupVars, hassVars, transport, handle, system_info,
                   mask_ratio_settings, current_ratio_status, flowVars, sideVars>>

\* End of stream or an IO error: the Transport declares the link down.
TransportFails ==
    /\ transport = "open"
    /\ pc \in {"wait", "loaded"}
    /\ transport' = "failed"
    /\ last' = [NoCall EXCEPT !.handler = "transport"]
    /\ UNCHANGED <<setupVars, hassVars, handle, stateModel, flowVars, sideVars>>

(***************************************************************************)
(* The disconnect handler and its two callers.                             *)
(***************************************************************************)
\* disconnect(): await device.close()
Disconnected(handler) ==
    /\ transport' = close.transport
    /\ handle' = close.handle
    /\ last' = [NoCall EXCEPT !.handler = handler, !.devop = "close",
                              !.devres = close.res,
                              !.escaped = IF close.res = "ok" THEN "none"
                                          ELSE close.res,
                              !.pre_transport = transport]

\* The listener registered by hass.bus.async_listen_once(
\* EVENT_HOMEASSISTANT_STOP, disconnect) is called with the event.
StopEvent ==
    /\ stop_listener
    /\ stop_listener' = FALSE
    /\ stop_fired' = TRUE
    /\ IF Call(DisconnectParams, ListenerArgs) = "ok"
       THEN Disconnected("stop_listener")
       ELSE /\ last' = [NoCall EXCEPT !.handler = "stop_listener",
                                      !.escaped = "TypeError",
                                      !.pre_transport = transport]
            /\ UNCHANGED <<transport, handle>>
    /\ UNCHANGED <<setupVars, hass_data, platforms, ratio_services,
                   update_options, stateModel, flowVars, sideVars>>

\* async_unload_entry: await disconnect(); pop the entry; unload the platforms.
async_unload_entry ==
    /\ pc = "loaded"
    /\ IF hass_data.present /\ hass_data.disconnect
       THEN Disconnected("async_unload_entry")
       ELSE /\ last' = [NoCall EXCEPT !.handler = "async_unload_entry",
                                      !.pre_transport = transport]
            /\ UNCHANGED <<transport, handle>>
    /\ IF last'.escaped = "none"
       THEN /\ hass_data' = [present |-> FALSE, disconnect |-> FALSE]
            /\ platforms' = FALSE
            /\ stop_listener' = FALSE
            /\ pc' = "unloaded"
       ELSE /\ pc' = "unload_failed"
            /\ UNCHANGED <<hass_data, platforms, stop_listener>>
    /\ UNCHANGED <<elapsed, setup_result, setup_error, stop_fired,
                   ratio_services, update_options, stateModel, flowVars, sideVars>>

(***************************************************************************)
(* The config flow (config_flow.py) against two physical controllers, and  *)
(* the connect of async_setup_entry for the entries it creates.            *)
(***************************************************************************)
Controllers == {"c1", "c2"}

\* What a controller reports as its serial number in its system info.
DeviceSerial(c) == IF c = "c1" THEN "SN1" ELSE "SN2"

\* discovery_info.serial_number of the USB adapter; "" when it carries none.
UsbSerial(c) == IF c = "c1" THEN "FT1" ELSE ""

\* str(uuid.uuid4()): a value never drawn before.
UuidNames == <<"uuid-1", "uuid-2", "uuid-3", "uuid-4">>

NoProbe == [ctrl |-> "none", unique_id |-> ""]
NoProbeIo == [wrote |-> <<>>, response |-> <<>>, raised |-> "none"]

InitFlowIdle ==
    /\ entries = {}
    /\ usb_flows = {}
    /\ flow_conns = [c \in Controllers |-> 0]
    /\ entry_conns = [c \in Controllers |-> 0]
    /\ probe = NoProbe
    /\ setup_done = {}
    /\ uuids = 0
    /\ flow_result = "none"
    /\ probe_io = NoProbeIo

\* Connections open on the port of controller c.
OpenOn(c) ==
    flow_conns[c] + entry_conns[c] + (IF probe.ctrl = c THEN 1 ELSE 0)

\* async_set_unique_id followed by _abort_if_unique_id_configured: the
\* reason the flow aborts with, "" when it goes on.
UniqueIdAbort(uid, self) ==
    IF \E f \in usb_flows \ self : f.unique_id = uid THEN "already_in_progress"
    ELSE IF \E e \in entries : e.unique_id = uid THEN "already_configured"
    ELSE ""

\* _configure_device(port): Device(port, None), connect(read_info=True) and
\* the info read from it.  Nothing closes the device.  After a timeout the
\* transport may or may not have been opened.
ConfigureOutcomes == {"ok", "TimeoutError", "ConnectionError"}

\* The system info controller c answers the system-info query with.
ControllerInfo(c) ==
    [serial_number |-> DeviceSerial(c), mask_ids |-> "TB", width |-> "100",
     height |-> "56", protocol_version |-> "1.0", screen_model |-> "SSE"]

\* SystemInfo as the Device constructor creates it: empty.
UnsetInfo ==
    [serial_number |-> "", mask_ids |-> "", width |-> "", height |-> "",
     protocol_version |-> "", screen_model |-> ""]

\* connect(read_info): opens the Transport and, with read_info, issues the
\* system-info query and populates SystemInfo before it returns.
connect(c, read_info, res) ==
    [res |-> res,
     system_info |-> IF res = "ok" /\ read_info THEN ControllerInfo(c)
                     ELSE UnsetInfo]

\* await device.connect(read_info=True)
ReadInfoDefault == FALSE
ReadInfo == TRUE

\* The dict _configure_device returns once connect has returned.
ConfiguredInfo(c) ==
    LET si == connect(c, ReadInfo, "ok").system_info
    IN  [height |-> si.height, mask_ids |-> si.mask_ids,
         protocol_version |-> si.protocol_version,
         screen_model |-> si.screen_model,
         serial_number |-> si.serial_number, serial_port |-> c,
         width |-> si.width]
_configure_device(c, res, opened) ==
    flow_conns' = [flow_conns EXCEPT
                      ![c] = @ + (IF res = "ok" \/ (res = "TimeoutError" /\ opened)
                                  THEN 1 ELSE 0)]

\* The end of a step that configured controller c under unique id uid.
CreateOrAbort(c, uid, self) ==
    IF UniqueIdAbort(uid, self) # ""
    THEN /\ flow_result' = UniqueIdAbort(uid, self)
         /\ UNCHANGED entries
    ELSE /\ flow_result' = "create_entry"
         /\ entries' = entries \cup
                {[unique_id |-> uid, ctrl |-> c, data |-> ConfiguredInfo(c)]}

Idle == probe = NoProbe

\* async_step_user with user_input naming the port of controller c.
async_step_user(c) ==
    /\ Idle
    /\ flow_conns[c] < MaxFlowConns
    /\ \E res \in ConfigureOutcomes, opened \in BOOLEAN :
         /\ _configure_device(c, res, opened)
         /\ CASE res = "ok" ->
                   CreateOrAbort(c, ConfiguredInfo(c).serial_number, {})
              [] res = "TimeoutError" ->
                   flow_result' = "connection_failed" /\ UNCHANGED entries
              [] OTHER -> flow_result' = "raised" /\ UNCHANGED entries
    /\ probe_io' = NoProbeIo
    /\ UNCHANGED <<lifeVars, sideVars, usb_flows, entry_conns, probe,
                   setup_done, uuids>>

\* async_step_user with a port that does not start with "/dev/".
async_step_user_invalid_port ==
    /\ Idle
    /\ flow_result' = "invalid_port"
    /\ probe_io' = NoProbeIo
    /\ UNCHANGED <<lifeVars, sideVars, entries, usb_flows, flow_conns, entry_conns,
                   probe, setup_done, uuids>>

\* discovery_info.serial_number or str(uuid.uuid4())
DrawsUuid(c) == UsbSerial(c) = ""
SerialOrUuid(c) == IF DrawsUuid(c) THEN UuidNames[uuids + 1] ELSE UsbSerial(c)
Drawn(c) ==
    /\ DrawsUuid(c) => uuids < MaxUuid
    /\ uuids' = IF DrawsUuid(c) THEN uuids + 1 ELSE uuids

\* async_step_usb up to the probe: the discovery info is checked, the unique
\* id set, and _query_serial_device opens the port.
async_step_usb(c, complete) ==
    /\ Idle
    /\ Drawn(c)
    /\ IF ~complete
       THEN flow_result' = "invalid_discovery_info" /\ UNCHANGED probe
       ELSE IF UniqueIdAbort(SerialOrUuid(c), {}) # ""
       THEN flow_result' = UniqueIdAbort(SerialOrUuid(c), {}) /\ UNCHANGED probe
       ELSE /\ probe' = [ctrl |-> c, unique_id |-> SerialOrUuid(c)]
            /\ flow_result' = "probing"
    /\ probe_io' = NoProbeIo
    /\ UNCHANGED <<lifeVars, sideVars, entries, usb_flows, flow_conns, entry_conns,
                   setup_done>>

\* Strings are sequences of characters.
Whitespace == {" "}

RECURSIVE lstrip(_)
lstrip(s) ==
    IF s # <<>> /\ Head(s) \in Whitespace THEN lstrip(Tail(s)) ELSE s

RECURSIVE rstrip(_)
rstrip(s) ==
    IF s # <<>> /\ s[Len(s)] \in Whitespace
    THEN rstrip(SubSeq(s, 1, Len(s) - 1)) ELSE s

strip(s) == rstrip(lstrip(s))

startswith(s, prefix) ==
    Len(s) >= Len(prefix) /\ SubSeq(s, 1, Len(prefix)) = prefix
endswith(s, suffix) ==
    Len(s) >= Len(suffix)
        /\ SubSeq(s, Len(s) - Len(suffix) + 1, Len(s)) = suffix

\* The Frame Codec's encode: [<address><command><payload>].
encode(address, command, payload) ==
    <<"[">> \o address \o command \o payload \o <<"]">>

\* ser.write(b"[01Y]")
ProbeFrame == <<"[", "0", "1", "Y", "]">>

\* ser.read_until(b"]").decode(): a reply of the controller, one of another
\* address, one preceded by a blank, one cut short by the read timeout, one
\* without its opening bracket, and none at all.
ProbeReplies ==
    {<<"[", "0", "1", "S", "]">>, <<"[", "0", "2", "S", "]">>,
     <<" ", "[", "0", "1", "S", "]">>, <<"[", "0", "1", "S">>,
     <<"0", "1", "S", "]">>, <<>>}

\* What opening, writing, reading or decoding may raise.
ProbeErrors == {"SerialException", "UnicodeDecodeError", "ValueError", "OSError"}

\* The probe: its reply, or the error raised, and whether the frame was
\* written before the error.
ProbeOutcomes ==
    [reply : ProbeReplies, raised : {"none"}, wrote : {TRUE}]
        \cup [reply : {<<>>}, raised : ProbeErrors, wrote : BOOLEAN]

\* response.startswith("[01") and response.endswith("]")
IdentifiedByEnd(response) == endswith(response, <<"]">>)
Identified(response) ==
    startswith(response, <<"[", "0", "1">>) /\ endswith(response, <<"]">>)

\* The except clauses of _query_serial_device: it logs and returns None.
QueryCatches == {"SerialException", "UnicodeDecodeError", "ValueError", "OSError"}

\* The except clauses of async_step_usb around the probe, in their order.
AbortReason(e) ==
    IF IsInstance(e, "SerialException") THEN "serial_communication_error"
    ELSE IF IsInstance(e, "UnicodeDecodeError") THEN "invalid_device_response"
    ELSE IF IsInstance(e, "ValueError") THEN "data_format_error"
    ELSE IF IsInstance(e, "OSError") THEN "os_error"
    ELSE "raised"

\* _query_serial_device and the rest of async_step_usb: the `with` block
\* releases the port; an identified reply leads to the confirm form.
_query_serial_device(out) ==
    /\ ~Idle
    /\ probe' = NoProbe
    /\ LET response == IF out.raised = "none" THEN strip(out.reply) ELSE <<>>
           escaped == IF \E cls \in QueryCatches : IsInstance(out.raised, cls)
                      THEN "none" ELSE out.raised
           device_response ==
               IF out.raised = "none" /\ Identified(response)
               THEN Some(response) ELSE None
       IN  /\ probe_io' = [wrote |-> IF out.wrote THEN ProbeFrame ELSE <<>>,
                           response |-> response, raised |-> out.raised]
           /\ IF escaped # "none"
              THEN flow_result' = AbortReason(escaped) /\ UNCHANGED usb_flows
              ELSE IF device_response = None
              THEN flow_result' = "device_unresponsive" /\ UNCHANGED usb_flows
              ELSE /\ usb_flows' = usb_flows \cup {probe}
                   /\ flow_result' = "confirm"
    /\ UNCHANGED <<lifeVars, sideVars, entries, flow_conns, entry_conns,
                   setup_done, uuids>>

\* async_step_confirm with user_input, for the flow f at the confirm form.
async_step_confirm(f) ==
    /\ Idle
    /\ f \in usb_flows
    /\ flow_conns[f.ctrl] < MaxFlowConns
    /\ Drawn(f.ctrl)
    /\ \E res \in ConfigureOutcomes, opened \in BOOLEAN :
         /\ _configure_device(f.ctrl, res, opened)
         /\ CASE res = "ok" ->
                   /\ CreateOrAbort(f.ctrl, SerialOrUuid(f.ctrl), {f})
                   /\ usb_flows' = usb_flows \ {f}
              [] res = "TimeoutError" ->
                   /\ flow_result' = "connection_failed"
                   /\ UNCHANGED <<entries, usb_flows>>
              [] OTHER ->
                   /\ flow_result' = "raised"
                   /\ UNCHANGED <<entries, usb_flows>>
    /\ probe_io' = NoProbeIo
    /\ UNCHANGED <<lifeVars, sideVars, entry_conns, probe, setup_done>>

\* async_setup_entry of a created entry, up to `await device.connect()`: a
\* new Device for the entry's port is connected.
EntrySetupConnect(e) ==
    /\ Idle
    /\ e \in entries
    /\ e.unique_id \notin setup_done
    /\ setup_done' = setup_done \cup {e.unique_id}
    /\ \E ok \in BOOLEAN :
         entry_conns' = [entry_conns EXCEPT
                            ![e.ctrl] = @ + (IF ok THEN 1 ELSE 0)]
    /\ UNCHANGED <<lifeVars, sideVars, entries, usb_flows, flow_conns, probe,
                   uuids, flow_result, probe_io>>

\* No switch handler has completed; ToggleEntity._attr_is_on starts as None.
NoToggle ==
    [n |-> 0, origin |-> "None", pre |-> "None", post |-> "None",
     handler |-> "none"]

\* The platform entities that subscribe to the update signal.
Entities == {"switch", "select", "sensor"}

NoDispatch ==
    [n |-> 0, calls |-> [e \in Entities |-> <<>>], added |-> {},
     removed |-> {}]
NoNotify == [nargs |-> 0, result |-> "none", dispatched |-> FALSE]

\* The callers of the device's queries, and the command keys they use.
Callers == 1..MaxCallers
Keys == {"positions", "status"}
NoRequest == [key |-> "none", state |-> "idle", retry |-> FALSE]

\* No send_command call was made; the sensor platform is not set up.
NoSend == [command |-> <<>>, executed |-> <<>>, raised |-> "none"]
NoReading == [key |-> <<>>, motor_id |-> None, value |-> None,
              raised |-> "none"]

InitSide ==
    /\ attr_is_on = None
    /\ toggled = NoToggle
    /\ targets = {}
    /\ entity_state = [e \in Entities |-> "new"]
    /\ refreshed = NoDispatch
    /\ notified = NoNotify
    /\ pending = {}
    /\ requests = [c \in Callers |-> NoRequest]
    /\ sent = NoSend
    /\ sensors = <<>>
    /\ reading = NoReading

\* Nothing is set up, no device is constructed, no flow has run.
InitFlow ==
    /\ pc = "not_loaded"
    /\ elapsed = 0
    /\ setup_result = "none"
    /\ setup_error = "none"
    /\ hass_data = [present |-> FALSE, disconnect |-> FALSE]
    /\ stop_listener = FALSE
    /\ stop_fired = FALSE
    /\ platforms = FALSE
    /\ ratio_services = {}
    /\ update_options = {}
    /\ transport = "none"
    /\ handle = FALSE
    /\ system_info = [serial_number |-> "", mask_ids |-> <<>>]
    /\ mask_ratio_settings =
         [num_ratios |-> 0, ratios |-> <<>>, current_ratio |-> None,
          current_movement_code |-> "None"]
    /\ current_motor_positions = [num_motors |-> 0]
    /\ current_ratio_status = [ratio_id |-> None]
    /\ last = NoCall
    /\ InitFlowIdle
    /\ InitSide

NextFlow ==
    \/ \E c \in Controllers : async_step_user(c)
    \/ async_step_user_invalid_port
    \/ \E c \in Controllers, complete \in BOOLEAN : async_step_usb(c, complete)
    \/ \E out \in ProbeOutcomes : _query_serial_device(out)
    \/ \E f \in usb_flows : async_step_confirm(f)
    \/ \E e \in entries : EntrySetupConnect(e)

SpecFlow == InitFlow /\ [][NextFlow]_vars

(***************************************************************************)
(* The life cycle of one config entry.                                     *)
(***************************************************************************)
\* The inputs the handlers are called with: for each schema, values it
\* accepts and values it rejects.
Directions == {"in", "out"}
MotorInputs == {"T", "L", "Z"}
MovementCodes == {"None", "J"}
RatioInputs ==
    (1..(MaxRatios + 1)) \cup {ReservedLo - 1, ReservedLo, ReservedHi + 1}

\* The entry exists and is not set up; no flow is in progress.
Init == InitFlow

Next ==
    \/ SetupStart
    \/ SetupConnect
    \/ SetupSettings
    \/ SetupStatus
    \/ SetupPositions
    \/ SetupSleep
    \/ SetupTimedOut
    \/ SetupRegister
    \/ \E key \in ButtonKeys : async_press(key)
    \/ \E option \in Labels \cup {"4:3"} : async_select_option(option)
    \/ \E r \in 1..MaxRatios : set_aspect_ratio(r)
    \/ \E d \in Directions, m \in MotorInputs, c \in MovementCodes :
         move_motors_service(d, m, c)
    \/ \E name \in {"home", "halt", "calibrate"}, m \in MotorInputs :
         motor_service(name, m)
    \/ \E r \in RatioInputs : update_ratio_service(r)
    \/ \E n \in 1..MaxMotors : UnsolicitedPositions(n)
    \/ TransportFails
    \/ StopEvent
    \/ async_unload_entry

Spec == Init /\ [][Next]_vars

(***************************************************************************)
(* The jog switch (switch.py) of a loaded entry.                           *)
(***************************************************************************)
\* The entry right after async_setup_entry returned True: the initial
\* queries succeeded, the controller reported a table of one ratio, and a
\* position report ended the readiness wait.
LoadedEntry ==
    /\ pc = "loaded"
    /\ elapsed = 0
    /\ setup_result = "True"
    /\ setup_error = "none"
    /\ hass_data = [present |-> TRUE, disconnect |-> TRUE]
    /\ stop_listener = TRUE
    /\ stop_fired = FALSE
    /\ platforms = TRUE
    /\ transport = "open"
    /\ handle = TRUE
    /\ \E m \in MaskIdChoices :
         system_info = [serial_number |-> "SN1", mask_ids |-> m]
    /\ LET table == <<"16:9">>
       IN  /\ mask_ratio_settings =
                [num_ratios |-> Len(table), ratios |-> table,
                 current_ratio |-> None, current_movement_code |-> "None"]
           /\ ratio_services = DOMAIN table
           /\ update_options = DOMAIN table \cup Reserved
    /\ current_motor_positions = [num_motors |-> 1]
    /\ current_ratio_status = [ratio_id |-> Some(1)]
    /\ last = [NoCall EXCEPT !.handler = "unsolicited"]
    /\ InitFlowIdle

\* toggle_jog(): flips current_movement_code between "J" and none.  The
\* design document names only these two values; from "P" either may result.
JogTargets(code) ==
    IF code = "J" THEN {"None"}
    ELSE IF code = "None" THEN {"J"}
    ELSE {"J", "None"}

toggle_jog(reply, target) ==
    Submit(reply,
           [mask_ratio_settings EXCEPT !.current_movement_code = target],
           current_motor_positions, current_ratio_status)

\* The method each handler looks up on the device with getattr.
TurnOnMethod == "toggle_jog"
TurnOffMethodHalt == "halt"
TurnOffMethod == "toggle_jog"

SwitchCall(method, reply, target) ==
    IF method = "toggle_jog" THEN toggle_jog(reply, target)
    ELSE motor_command("", reply)

\* SeymourSwitch.set_states: `pass`; _attr_is_on is assigned nowhere.
switch_set_states == attr_is_on

\* async_turn_on / async_turn_off: await the device method, then set_states.
\* `toggled` keeps the last two handlers that completed back to back.
SwitchHandler(handler, method) ==
    /\ Loaded
    /\ \E reply \in Replies,
          target \in JogTargets(mask_ratio_settings.current_movement_code) :
         LET code == mask_ratio_settings.current_movement_code
             o == SwitchCall(method, reply, target)
             consecutive == toggled.n >= 1 /\ toggled.post = code
         IN  /\ Apply(o)
             /\ last' = Invocation(handler, method, o, {})
             /\ IF o.res = "ok"
                THEN /\ toggled' =
                          [n |-> IF consecutive THEN 2 ELSE 1,
                           origin |-> IF consecutive THEN toggled.pre ELSE code,
                           pre |-> code,
                           post |-> o.mrs.current_movement_code,
                           handler |-> handler]
                     /\ attr_is_on' = switch_set_states
                ELSE UNCHANGED <<toggled, attr_is_on>>
    /\ UNCHANGED <<setupVars, hassVars, handle, system_info, flowVars,
                   dispatchVars, routerVars, platformVars>>

async_turn_on == SwitchHandler("async_turn_on", TurnOnMethod)
async_turn_off == SwitchHandler("async_turn_off", TurnOffMethod)

\* vol.Any(None, "J", "P"): every movement code the move_motors schema accepts.
SwitchMovementCodes == {"None", "J", "P"}

InitSwitch == LoadedEntry /\ InitSide

NextSwitch ==
    \/ async_turn_on
    \/ async_turn_off
    \/ \E c \in SwitchMovementCodes : move_motors_service("in", "T", c)
    \/ TransportFails

SpecSwitch == InitSwitch /\ [][NextSwitch]_vars

(***************************************************************************)
(* The update signal: the callback setup hands to the device               *)
(* (__init__.py) and the entities subscribed to the signal (entity.py).    *)
(***************************************************************************)
\* SeymourEntity._update: self.set_states(); self.async_write_ha_state()
_update == <<"set_states", "async_write_ha_state">>

\* self.async_on_remove(async_dispatcher_connect(...)): what removing the
\* entity disconnects.
OnRemoveNothing(e) == {}
OnRemove(e) == {e}

\* async_added_to_hass: connect _update to the signal.
async_added_to_hass(e) ==
    /\ Loaded
    /\ entity_state[e] = "new"
    /\ entity_state' = [entity_state EXCEPT ![e] = "added"]
    /\ targets' = targets \cup {e}
    /\ UNCHANGED <<lifeVars, flowVars, entityVars, refreshed, notified,
                   routerVars, platformVars>>

\* The entity is removed: its on-remove callbacks run.
EntityRemoved(e) ==
    /\ entity_state[e] = "added"
    /\ entity_state' = [entity_state EXCEPT ![e] = "removed"]
    /\ targets' = targets \ OnRemove(e)
    /\ UNCHANGED <<lifeVars, flowVars, entityVars, refreshed, notified,
                   routerVars, platformVars>>

\* async_dispatcher_send(hass, SEYMOUR_UPDATE_SIGNAL): every connected
\* target runs once.
async_dispatcher_send ==
    [n |-> 1,
     calls |-> [e \in Entities |-> IF e \in targets THEN _update ELSE <<>>],
     added |-> {e \in Entities : entity_state[e] = "added"},
     removed |-> {e \in Entities : entity_state[e] = "removed"}]

\* The unsolicited-update contract names no required payload: the device
\* may invoke the callback with no argument or with one.
CallbackArgs == {0, 1}

\* seymour_update_callback, invoked by the device with nargs arguments.
seymour_update_callback(nargs) ==
    /\ pc = "loaded"
    /\ transport = "open"
    /\ IF Call(CallbackParams, nargs) = "ok"
       THEN /\ refreshed' = async_dispatcher_send
            /\ notified' = [nargs |-> nargs, result |-> "ok",
                            dispatched |-> TRUE]
       ELSE /\ notified' = [nargs |-> nargs, result |-> "TypeError",
                            dispatched |-> FALSE]
            /\ UNCHANGED refreshed
    /\ UNCHANGED <<lifeVars, flowVars, entityVars, targets, entity_state,
                   routerVars, platformVars>>

InitDispatch == LoadedEntry /\ InitSide

NextDispatch ==
    \/ \E e \in Entities : async_added_to_hass(e)
    \/ \E e \in Entities : EntityRemoved(e)
    \/ \E nargs \in CallbackArgs : seymour_update_callback(nargs)

SpecDispatch == InitDispatch /\ [][NextDispatch]_vars

(***************************************************************************)
(* The Response Router (pySeymour.device), modelled from the design        *)
(* document, under overlapping presses of the query buttons.               *)
(***************************************************************************)
\* Single slot per key, policy reject: a request is entered only when its
\* key has no pending entry.
RouterAcceptsAll(k) == TRUE
RouterAccepts(k) == ~\E e \in pending : e.key = k

Entry(c, k) == [key |-> k, caller |-> c]

\* A per-request timeout removes that request from the table.
ExpireNothing(table, e) == table
Expire(table, e) == table \ {e}

Resolve(c, state) == [requests EXCEPT ![c].state = state]

\* async_press of the query button with key k, pressed by caller c, up to
\* the point where its request is pending or has failed fast.
PressIssues(c, k) ==
    /\ pc = "loaded"
    /\ requests[c].state # "awaiting"
    /\ LET retry == \E d \in Callers :
                        requests[d].key = k /\ requests[d].state = "TimeoutError"
           result(state) == [requests EXCEPT
                                ![c] = [key |-> k, state |-> state,
                                        retry |-> retry]]
       IN  IF transport # "open"
           THEN requests' = result("ConnectionError") /\ UNCHANGED pending
           ELSE IF RouterAccepts(k)
           THEN /\ pending' = pending \cup {Entry(c, k)}
                /\ requests' = result("awaiting")
           ELSE requests' = result("BusyError") /\ UNCHANGED pending
    /\ UNCHANGED <<lifeVars, flowVars, entityVars, dispatchVars, platformVars>>

\* A decoded frame matching key k resolves the pending request for k.
RouterReply(k) ==
    /\ transport = "open"
    /\ \E e \in pending :
         /\ e.key = k
         /\ pending' = pending \ {e}
         /\ requests' = Resolve(e.caller, "ok")
    /\ UNCHANGED <<lifeVars, flowVars, entityVars, dispatchVars, platformVars>>

\* No reply within the per-request timeout: the link is presumed alive.
RouterTimeout(e) ==
    /\ e \in pending
    /\ pending' = Expire(pending, e)
    /\ requests' = Resolve(e.caller, "TimeoutError")
    /\ UNCHANGED <<lifeVars, flowVars, entityVars, dispatchVars, platformVars>>

\* The Transport declares the link down: every pending request is cancelled
\* with ConnectionError.
RouterLinkDown ==
    /\ transport = "open"
    /\ transport' = "failed"
    /\ pending' = {}
    /\ requests' = [c \in Callers |->
                      IF \E e \in pending : e.caller = c
                      THEN [requests[c] EXCEPT !.state = "ConnectionError"]
                      ELSE requests[c]]
    /\ UNCHANGED <<setupVars, hassVars, handle, stateModel, last, flowVars,
                   entityVars, dispatchVars, platformVars>>

InitRouter == LoadedEntry /\ InitSide

NextRouter ==
    \/ \E c \in Callers, k \in Keys : PressIssues(c, k)
    \/ \E k \in Keys : RouterReply(k)
    \/ \E e \in pending : RouterTimeout(e)
    \/ RouterLinkDown

SpecRouter == InitRouter /\ [][NextRouter]_vars

(***************************************************************************)
(* remote.send_command (remote.py) on a loaded entry.                      *)
(***************************************************************************)
VALID_COMMANDS == {"clear", "halt", "home", "diagnostics"}

\* The command lists the service is called with: known commands of the
\* facade and a name that is not a command.
CommandInputs == {"halt", "home", "stop"}
CommandLists == UNION {[1..n -> CommandInputs] : n \in 1..MaxCommands}

\* await getattr(self._device, cmd)(): the facade's operation, no argument.
DeviceCommand(cmd, reply) == motor_command("", reply)

\* for cmd in command: raise on an unknown cmd, else await the operation.
\* replies[i] is what the wire answers to the i-th command.  An operation
\* that fails raises out of the loop; one that succeeds leaves the
\* transport open and the cached state as it was, so the next command meets
\* the state the first one met.
RECURSIVE SendLoop(_, _, _)
SendLoop(command, replies, i) ==
    IF i > Len(command)
    THEN [executed |-> <<>>, raised |-> "none", transport |-> transport,
          writes |-> 0]
    ELSE IF command[i] \notin VALID_COMMANDS
    THEN [executed |-> <<>>, raised |-> "HomeAssistantError",
          transport |-> transport, writes |-> 0]
    ELSE LET o == DeviceCommand(command[i], replies[i])
             rest == SendLoop(command, replies, i + 1)
         IN  IF o.res # "ok"
             THEN [executed |-> <<command[i]>>, raised |-> o.res,
                   transport |-> o.transport, writes |-> o.writes]
             ELSE [rest EXCEPT !.executed = <<command[i]>> \o @,
                               !.writes = o.writes + @]

\* SeymourRemote.async_send_command(command) with a list of commands: a list
\* is not equal to "set_aspect_ratio", so the call takes the else branch
\* (the other branch is set_aspect_ratio above).
async_send_command(command) ==
    /\ Loaded
    /\ \E replies \in [1..Len(command) -> Replies] :
         LET r == SendLoop(command, replies, 1)
         IN  /\ sent' = [command |-> command, executed |-> r.executed,
                         raised |-> r.raised]
             /\ transport' = r.transport
             /\ last' = [NoCall EXCEPT !.handler = "async_send_command",
                                       !.escaped = r.raised,
                                       !.writes = r.writes,
                                       !.pre_transport = transport]
    /\ UNCHANGED <<setupVars, hassVars, handle, stateModel, flowVars,
                   entityVars, dispatchVars, routerVars, sensorVars>>

InitRemote == LoadedEntry /\ InitSide

NextRemote ==
    \/ \E command \in CommandLists : async_send_command(command)
    \/ \E r \in 1..MaxRatios : set_aspect_ratio(r)
    \/ TransportFails

SpecRemote == InitRemote /\ [][NextRemote]_vars

(***************************************************************************)
(* The sensor platform (sensor.py) of a loaded entry.  Strings are         *)
(* sequences of characters; a sensor key is the sequence of the parts its  *)
(* f-string joins with "_".                                                *)
(***************************************************************************)
\* str.upper on the letters that occur.
UpperChar(c) ==
    CASE c = "t" -> "T" [] c = "b" -> "B" [] c = "l" -> "L" [] OTHER -> c
upper(s) == [i \in DOMAIN s |-> UpperChar(s[i])]

\* ord() of the characters that occur.
Ord(c) ==
    CASE c = "A" -> 65 [] c = "B" -> 66 [] c = "L" -> 76 [] c = "T" -> 84
      [] c = "," -> 44 [] OTHER -> 32

\* str.split(sep): the pieces between the separators, empty ones included.
RECURSIVE split(_, _)
split(s, sep) ==
    IF \A i \in DOMAIN s : s[i] # sep THEN <<s>>
    ELSE LET i == CHOOSE k \in DOMAIN s :
                      s[k] = sep /\ \A j \in 1..(k - 1) : s[j] # sep
         IN  <<SubSeq(s, 1, i - 1)>> \o split(SubSeq(s, i + 1, Len(s)), sep)

\* list.index(x): the 0-based position of the first x.
index(list, x) ==
    (CHOOSE k \in DOMAIN list :
         list[k] = x /\ \A j \in 1..(k - 1) : list[j] # x) - 1

\* dict.get(key): None for a missing key.
Get(mapping, key) ==
    IF key # None /\ key[1] \in DOMAIN mapping THEN Some(mapping[key[1]])
    ELSE None

\* The raw mask_ids strings of the controllers: empty, "TBL" and "T,B,L".
MaskIdForms == {<<>>, <<"T", "B", "L">>, <<"T", ",", "B", ",", "L">>}

\* The State Model's RatioInfo of ratio k: ratio 1 stores a MotorInfo for
\* the first motor only, at position 0; the other ratios store three.
RatioInfo(k) ==
    [label |-> IF k = 1 THEN "16:9" ELSE "2.35:1",
     width |-> 100 * k, height |-> 50 * k, diagonal |-> 110 * k,
     motors |-> [i \in 1..(IF k = 1 THEN 1 ELSE 3) |->
                    [position |-> 10 * (k - 1) + (i - 1), adjustment |-> i]]]

\* The ratio tables of a settings reply.
SensorTables == {[k \in 1..n |-> RatioInfo(k)] : n \in 1..MaxRatios}

\* STATUS_CODES.get(code, "Unknown")
STATUS_CODES == {"idle", "moving", "error"}
StatusText(code) == IF code \in STATUS_CODES THEN code ELSE "Unknown"

\* SeymourSensorEntityDescription: key, motor_id, motor_index.
Description(key, motor_id, motor_index) ==
    [key |-> key, motor_id |-> motor_id, motor_index |-> motor_index]

SENSOR_TYPES ==
    <<Description(<<"current_ratio_id">>, None, None),
      Description(<<"current_status_code">>, None, None),
      Description(<<"num_motors">>, None, None),
      Description(<<"num_ratios">>, None, None),
      Description(<<"width">>, None, None),
      Description(<<"height">>, None, None),
      Description(<<"diagonal">>, None, None)>>

\* for motor_id in device.system_info.mask_ids: the string is iterated
\* character by character; each character gets a position and an adjustment
\* description.
RECURSIVE MaskDescriptions(_)
MaskDescriptions(mask_ids) ==
    IF mask_ids = <<>> THEN <<>>
    ELSE LET motor_label == UpperChar(Head(mask_ids))
             motor_index == Ord(motor_label) - Ord("A")
         IN  <<Description(<<"motor", motor_label, "position">>,
                           Some(motor_label), Some(motor_index)),
               Description(<<"motor", motor_label, "adjustment">>,
                           Some(motor_label), Some(motor_index))>>
             \o MaskDescriptions(Tail(mask_ids))

\* for motor_id in device.current_motor_positions.motors: one description
\* per key of the mapping.
RECURSIVE PositionDescriptions(_)
PositionDescriptions(ids) ==
    IF ids = {} THEN <<>>
    ELSE LET motor_id == CHOOSE m \in ids : TRUE
         IN  <<Description(<<"motor", motor_id, "current_position">>,
                           Some(motor_id), None)>>
             \o PositionDescriptions(ids \ {motor_id})

\* SeymourSensor.__init__: f"{serial_number}-{key}"
UniqueId(d) == <<system_info.serial_number, d.key>>

\* sensor.async_setup_entry: the descriptions handed to async_add_entities.
sensor_async_setup_entry ==
    /\ Loaded
    /\ sensors = <<>>
    /\ sensors' = SENSOR_TYPES
                    \o MaskDescriptions(system_info.mask_ids)
                    \o PositionDescriptions(DOMAIN current_motor_positions.motors)
    /\ UNCHANGED <<lifeVars, flowVars, entityVars, dispatchVars, routerVars,
                   remoteVars, reading>>

\* `word in key` for the keys the platform builds.
KeyContains(key, word) ==
    \E i \in DOMAIN key :
        key[i] = word \/ (word = "position" /\ key[i] = "current_position")

\* The mask ids parsed into motor labels.
MaskIdsList(raw_mask_ids) ==
    IF "," \in Range(raw_mask_ids)
    THEN LET parts == split(raw_mask_ids, ",")
         IN  [i \in DOMAIN parts |-> upper(strip(parts[i]))]
    ELSE [i \in DOMAIN raw_mask_ids |-> <<UpperChar(raw_mask_ids[i])>>]

\* motor_index = mask_ids_list.index(motor_label) + 1
MotorIndexZeroBased(mask_ids_list, motor_label) ==
    index(mask_ids_list, motor_label)
MotorIndex(mask_ids_list, motor_label) ==
    index(mask_ids_list, motor_label) + 1

Returns(v) == [value |-> v, raised |-> "none"]
Raises(e) == [value |-> None, raised |-> e]

\* The try block of native_value for a description with motor_id and
\* motor_index.  Values are returned boxed, None is the empty box.
MotorValue(d) ==
    LET current_ratio_id == mask_ratio_settings.current_ratio
        current_ratio == Get(mask_ratio_settings.ratios, current_ratio_id)
        raw_mask_ids == system_info.mask_ids
        mask_ids_list == MaskIdsList(raw_mask_ids)
        motor_label == <<UpperChar(d.motor_id[1])>>
    IN  IF current_ratio = None THEN Returns(None)
        ELSE IF raw_mask_ids = <<>> THEN Returns(None)
        ELSE IF motor_label \notin Range(mask_ids_list) THEN Returns(None)
        ELSE LET motor_index == MotorIndex(mask_ids_list, motor_label)
                 motor_info == Get(current_ratio[1].motors, Some(motor_index))
             IN  IF motor_info = None THEN Returns(None)
                 ELSE IF KeyContains(d.key, "position")
                 THEN Returns(Some(motor_info[1].position))
                 ELSE IF KeyContains(d.key, "adjustment")
                 THEN Returns(Some(motor_info[1].adjustment))
                 ELSE Returns(None)

\* entity_description.value_fn(self._device); ratios[current_ratio] raises
\* KeyError for a key the table does not have.
value_fn(d) ==
    LET ratio == Get(mask_ratio_settings.ratios,
                     mask_ratio_settings.current_ratio)
    IN  CASE d.key = <<"current_ratio_id">> ->
                 Returns(current_ratio_status.ratio_id)
          [] d.key = <<"current_status_code">> ->
                 Returns(Some(StatusText(current_ratio_status.status_code)))
          [] d.key = <<"num_motors">> ->
                 Returns(Some(current_motor_positions.num_motors))
          [] d.key = <<"num_ratios">> ->
                 Returns(Some(mask_ratio_settings.num_ratios))
          [] d.key = <<"width">> ->
                 IF ratio = None THEN Raises("KeyError")
                 ELSE Returns(Some(ratio[1].width))
          [] d.key = <<"height">> ->
                 IF ratio = None THEN Raises("KeyError")
                 ELSE Returns(Some(ratio[1].height))
          [] d.key = <<"diagonal">> ->
                 IF ratio = None THEN Raises("KeyError")
                 ELSE Returns(Some(ratio[1].diagonal))
          [] d.motor_id # None ->
                 Returns(Get(current_motor_positions.motors, d.motor_id))
          [] OTHER -> Returns(None)

\* SeymourSensor.native_value of the i-th sensor, as async_write_ha_state
\* reads it.
native_value(i) ==
    /\ Loaded
    /\ i \in DOMAIN sensors
    /\ UNCHANGED <<lifeVars, flowVars, entityVars, dispatchVars, routerVars,
                   remoteVars, sensors>>
    /\ LET d == sensors[i]
           r == IF d.motor_id # None /\ d.motor_index # None
                THEN MotorValue(d) ELSE value_fn(d)
       IN  reading' = [key |-> d.key, motor_id |-> d.motor_id,
                       value |-> r.value, raised |-> r.raised]

\* The 'Get Settings Info' button, answered: the controller reports the
\* table it has now.
SettingsReported(table) ==
    /\ Loaded
    /\ transport = "open"
    /\ LET o == get_settings_info("ok", table)
       IN  /\ Apply(o)
           /\ last' = Invocation("async_press", "settings_info", o, {})
    /\ UNCHANGED <<setupVars, hassVars, handle, system_info, flowVars,
                   sideVars>>

\* The entry right after setup returned True, for each form of mask_ids and
\* each table; no ratio has been selected yet.
InitSensor ==
    /\ pc = "loaded"
    /\ elapsed = 0
    /\ setup_result = "True"
    /\ setup_error = "none"
    /\ hass_data = [present |-> TRUE, disconnect |-> TRUE]
    /\ stop_listener = TRUE
    /\ stop_fired = FALSE
    /\ platforms = TRUE
    /\ transport = "open"
    /\ handle = TRUE
    /\ \E m \in MaskIdForms :
         system_info = [serial_number |-> "SN1", mask_ids |-> m]
    /\ \E table \in SensorTables :
         /\ mask_ratio_settings =
              [num_ratios |-> Len(table), ratios |-> table,
               current_ratio |-> None, current_movement_code |-> "None"]
         /\ ratio_services = DOMAIN table
         /\ update_options = DOMAIN table \cup Reserved
    /\ current_motor_positions =
         [num_motors |-> 1, motors |-> [m \in {"T"} |-> 7]]
    /\ current_ratio_status = [ratio_id |-> Some(1), status_code |-> "idle"]
    /\ last = [NoCall EXCEPT !.handler = "unsolicited"]
    /\ InitFlowIdle
    /\ InitSide

NextSensor ==
    \/ sensor_async_setup_entry
    \/ \E i \in DOMAIN sensors : native_value(i)
    \/ \E r \in 1..MaxRatios : set_aspect_ratio(r)
    \/ \E table \in SensorTables : SettingsReported(table)

SpecSensor == InitSensor /\ [][NextSensor]_vars

(***************************************************************************)
(* The claims.                                                             *)
(***************************************************************************)
EntityHandlers ==
    {"async_press", "async_select_option", "set_aspect_ratio",
     "move_motors_service", "home", "halt", "calibrate",
     "update_ratio_service"}

\* C1: when connect or one of the initial queries fails with a timeout or an
\* OS/connection error, async_setup_entry returns False, stores nothing in
\* hass.data, registers no disconnect handler or stop listener and forwards
\* no platform.
C1_ConnectFailureAbortsSetup ==
    setup_error \in {"TimeoutError", "ConnectionError", "OSError"} =>
        /\ setup_result = "False"
        /\ ~hass_data.present
        /\ ~hass_data.disconnect
        /\ ~stop_listener
        /\ ~platforms

\* C1, its case: an initial query timed out after connect had succeeded.
C1_Witness ==
    /\ setup_error = "TimeoutError"
    /\ last.devop = "get_status"
    /\ setup_result = "False"

\* C2: a device operation that fails with ConnectionError, TimeoutError or a
\* validation error inside an entity action or service handler is logged,
\* does not escape the handler, and leaves the cached state as it was.
C2_HandlerFailuresAreContained ==
    (/\ last.handler \in EntityHandlers
     /\ last.devres \in {"ConnectionError", "TimeoutError", "ValidationError"})
        => /\ last.escaped = "none"
           /\ last.logged
           /\ ~last.changed

\* C3: when Home Assistant stops or the entry is unloaded, the disconnect
\* handler is invoked by its caller and runs device.close() to completion
\* without error, so that the connection is closed.
C3_StopOrUnloadClosesConnection ==
    last.handler \in {"stop_listener", "async_unload_entry"} =>
        /\ last.devop = "close"
        /\ last.devres = "ok"
        /\ last.escaped = "none"
        /\ transport = "closed"

C5_OneConnectionPerPort == \A c \in Controllers : OpenOn(c) <= 1

\* C6: no two config entries are ever created for the same physical
\* controller, whatever the sequence of user and USB flows.
C6_OneEntryPerController ==
    \A e1, e2 \in entries : e1.ctrl = e2.ctrl => e1 = e2

\* C7: the State Model is written only by the device facade: no handler or
\* setup routine writes one of its fields itself, and a handler whose device
\* operation fails leaves it unchanged.
C7_StateModelOwnedByFacade ==
    /\ ~last.direct
    /\ (last.devres \notin {"ok", "notcalled"} => ~last.changed)

\* C8: a move_motors request whose motor_id is not one of the device's
\* mask_ids fails with ValidationError and writes nothing to the transport.
C8_UnknownMotorNeverReachesWire ==
    (/\ last.handler = "move_motors_service"
     /\ last.devop = "move_motors"
     /\ last.motor \notin Range(system_info.mask_ids))
        => /\ last.devres = "ValidationError"
           /\ last.writes = 0

\* C8, its case: the service was called, on an open transport, with a motor
\* the schema accepts and the device does not have.
C8_Witness ==
    /\ last.handler = "move_motors_service"
    /\ last.devop = "move_motors"
    /\ last.motor \in MOTOR_IDS \ Range(system_info.mask_ids)
    /\ transport = "open"

\* C9: the update_ratio service passes a ratio id on to device.update exactly
\* when it is a key of the device's current ratio table or lies in 990..999,
\* and the set it accepts stays equal to that domain when get_settings_info
\* refreshes the table.
C9_RatioDomainConsistent ==
    /\ platforms => update_options = RatioDomain
    /\ last.handler = "update_ratio_service" =>
           (last.devop = "update" <=> last.ratio[1] \in RatioDomain)

\* C10: after select_ratio(r) succeeds current_ratio is r and r is a key of
\* ratios: the service set_aspect_ratio_<r> selects exactly r, and the ratio
\* select selects a key whose label is the chosen option.
C10_SelectRatioSelectsRequested ==
    /\ (last.handler = "set_aspect_ratio" /\ last.devres = "ok") =>
           /\ mask_ratio_settings.current_ratio = last.ratio
           /\ last.ratio[1] \in RatioKeys
    /\ (last.handler = "async_select_option" /\ last.devres = "ok") =>
           /\ mask_ratio_settings.current_ratio # None
           /\ mask_ratio_settings.current_ratio[1] \in RatioKeys
           /\ mask_ratio_settings.ratios[mask_ratio_settings.current_ratio[1]]
                  = last.label

\* C10, its case: with two ratios in the table, the service of the first one
\* succeeded.
C10_Witness ==
    /\ last.handler = "set_aspect_ratio"
    /\ last.devres = "ok"
    /\ last.ratio = Some(1)
    /\ Cardinality(RatioKeys) > 1


C19_TurnOnEnablesTurnOffDisables ==
    /\ toggled.handler = "async_turn_on"
         => toggled.post = "J" /\ attr_is_on = Some(TRUE)
    /\ toggled.handler = "async_turn_off"
         => toggled.post # "J" /\ attr_is_on = Some(FALSE)


\* C12: connect(read_info=True) returns with SystemInfo populated, so the
\* data of every entry a flow creates carries the controller's serial_number,
\* mask_ids, width, height, protocol_version and screen_model, none unset.
C12_EntryDataCarriesSystemInfo ==
    \A e \in entries :
        /\ \A f \in DOMAIN UnsetInfo :
             e.data[f] = ControllerInfo(e.ctrl)[f] /\ e.data[f] # UnsetInfo[f]
        /\ e.data.serial_port = e.ctrl

\* Both a user flow and a confirmed USB flow have created an entry.
C12_Witness ==
    /\ flow_result = "create_entry"
    /\ \E e \in entries : e.unique_id = e.data.serial_number
    /\ \E e \in entries : e.unique_id # e.data.serial_number


\* C13: the readiness wait of async_setup_entry is bounded and gates on
\* num_motors > 0: it sleeps at most WaitLimit times, it can always take its
\* next step, it registers the device and forwards the platforms only with
\* num_motors > 0, and otherwise returns False having registered nothing.
C13_ReadinessWaitBoundedAndGated ==
    /\ [](/\ elapsed <= WaitLimit
          /\ pc = "wait" =>
               ENABLED (SetupSleep \/ SetupTimedOut \/ SetupRegister))
    /\ [][/\ (pc = "wait" /\ pc' = "wait" /\ elapsed' # elapsed) =>
               (elapsed' = elapsed + 1 /\ current_motor_positions.num_motors = 0)
          /\ (pc = "wait" /\ pc' = "loaded") =>
               /\ current_motor_positions.num_motors > 0
               /\ setup_result' = "True"
               /\ hass_data'.present /\ hass_data'.disconnect
               /\ stop_listener' /\ platforms'
          /\ (pc = "wait" /\ pc' \notin {"wait", "loaded"}) =>
               /\ current_motor_positions.num_motors = 0
               /\ elapsed = WaitLimit
               /\ pc' = "setup_failed"
               /\ setup_result' = "False"
               /\ ~hass_data'.present /\ ~hass_data'.disconnect
               /\ ~stop_listener' /\ ~platforms'
          /\ pc' = "loaded" => pc \in {"wait", "loaded"}
         ]_vars

\* The wait ran out: WaitLimit sleeps, still no motors, setup returned False.
C13_Witness ==
    /\ pc = "setup_failed"
    /\ setup_error = "none"
    /\ elapsed = WaitLimit
    /\ current_motor_positions.num_motors = 0
    /\ setup_result = "False"


\* C14: the callback setup passes to the device accepts an invocation with
\* zero arguments and on that invocation dispatches SEYMOUR_UPDATE_SIGNAL.
C14_CallbackTakesNoPayload ==
    (notified.result # "none" /\ notified.nargs = 0)
        => (notified.result = "ok" /\ notified.dispatched)

\* C18: for every update signal dispatched, each entity added and not yet
\* removed runs set_states() and then async_write_ha_state(), once each, and
\* a removed entity runs neither.
C18_SignalRefreshesSubscribedOnce ==
    refreshed.n > 0 =>
        /\ \A e \in refreshed.added :
             refreshed.calls[e] = <<"set_states", "async_write_ha_state">>
        /\ \A e \in refreshed.removed : refreshed.calls[e] = <<>>

\* A signal was dispatched with one entity added, one removed and one new.
C18_Witness ==
    /\ notified.dispatched
    /\ refreshed.added # {}
    /\ refreshed.removed # {}
    /\ refreshed.added \cup refreshed.removed # Entities


\* A step in which caller c issues a request.
Issues(c) == requests[c].state # "awaiting" /\ requests'[c] # requests[c]

\* C15: a second request for a key that has one outstanding yields BusyError
\* and leaves the table as it is; the first request stays in the table until
\* it is resolved; the table never holds more than one entry per key.
C15_OnePendingPerKey ==
    /\ [](/\ \A k \in Keys : Cardinality({e \in pending : e.key = k}) <= 1
          /\ \A c \in Callers :
               requests[c].state = "awaiting" =>
                   Entry(c, requests[c].key) \in pending)
    /\ [][\A c \in Callers :
            (Issues(c) /\ \E d \in Callers \ {c} :
                              /\ requests[d].state = "awaiting"
                              /\ requests[d].key = requests'[c].key)
                => (requests'[c].state = "BusyError" /\ pending' = pending)
         ]_vars

\* Two overlapping presses of one query button: the first is pending, the
\* second got BusyError.
C15_Witness ==
    \E c, d \in Callers :
        /\ c # d
        /\ requests[c].state = "awaiting"
        /\ requests[d].state = "BusyError"
        /\ requests[d].key = requests[c].key
        /\ Entry(c, requests[c].key) \in pending

\* C16: a request that times out resolves to TimeoutError and leaves the
\* table, without touching the requests of other callers and without moving
\* the client to Disconnected; a later request on a key no caller is waiting
\* on is accepted, and a matching reply resolves it.
C16_TimeoutIsolation ==
    [][\A c \in Callers :
         /\ (requests[c].state = "awaiting"
                /\ requests'[c].state = "TimeoutError") =>
              /\ pending' = pending \ {Entry(c, requests[c].key)}
              /\ \A d \in Callers \ {c} : requests'[d] = requests[d]
              /\ transport = "open" /\ transport' = "open"
         /\ (Issues(c) /\ transport = "open"
                /\ ~\E d \in Callers \ {c} :
                       /\ requests[d].state = "awaiting"
                       /\ requests[d].key = requests'[c].key) =>
              /\ requests'[c].state = "awaiting"
              /\ pending' = pending \cup {Entry(c, requests'[c].key)}
         /\ (requests[c].state = "awaiting" /\ requests'[c].state = "ok") =>
              /\ pending' = pending \ {Entry(c, requests[c].key)}
              /\ \A d \in Callers \ {c} : requests'[d] = requests[d]
      ]_vars

\* A request timed out, a later request on the same key was answered, and a
\* request on the other key was pending throughout.
C16_Witness ==
    \E c, d, o \in Callers :
        /\ requests[c].state = "TimeoutError"
        /\ requests[d].state = "ok"
        /\ requests[d].retry
        /\ requests[d].key = requests[c].key
        /\ requests[o].state = "awaiting"
        /\ requests[o].key # requests[c].key
        /\ transport = "open"


\* The wire format of the design document: [<addr:2><cmd:2><payload>].
AddrLen == 2
CmdLen == 2

\* `frame` is a bracketed frame whose body holds an address of addr_len
\* characters and a command code of at least cmd_len.
FrameForm(frame, addr_len, cmd_len) ==
    /\ Len(frame) >= addr_len + cmd_len + 2
    /\ Head(frame) = "["
    /\ frame[Len(frame)] = "]"
    /\ \A i \in 1..(Len(frame) - 1) : frame[i] # "]"

\* The reply the confirm form was reached with is a frame of the address.
AcceptedReplyIsFrame ==
    flow_result = "confirm" =>
        /\ startswith(probe_io.response, <<"[">> \o SubSeq(ProbeFrame, 2, AddrLen + 1))
        /\ endswith(probe_io.response, <<"]">>)

\* C17 (as claimed): every frame written, the identification probe of the
\* USB discovery step included, is [<addr:2><cmd:2><payload>], and a reply is
\* accepted only if it starts with "[" and the address and ends with "]".
C17_FramesHaveTwoCharCommand ==
    /\ probe_io.wrote # <<>> => FrameForm(probe_io.wrote, AddrLen, CmdLen)
    /\ AcceptedReplyIsFrame

\* C17 (amended): the frame the USB discovery step writes is the encoding of
\* the 2-character address 01, the one-character command code Y and no
\* payload, [01Y]; a reply, surrounding blanks aside, is accepted only if it
\* starts with "[" and the address and ends with "]".
C17_ProbeFrameHasOneCharCommand ==
    /\ probe_io.wrote # <<>> =>
         /\ probe_io.wrote = encode(<<"0", "1">>, <<"Y">>, <<>>)
         /\ FrameForm(probe_io.wrote, AddrLen, 1)
         /\ ~FrameForm(probe_io.wrote, AddrLen, CmdLen)
    /\ AcceptedReplyIsFrame

\* The probe was written and a reply of the address was accepted.
C17_Witness ==
    /\ flow_result = "confirm"
    /\ probe_io.wrote = ProbeFrame
    /\ probe_io.response = <<"[", "0", "1", "S", "]">>
    /\ usb_flows # {}

\* C20: each probe failure aborts with its own reason, and
\* device_unresponsive is used only when the probe completed without error
\* but returned no valid reply.
C20_ProbeFailuresHaveOwnReasons ==
    /\ probe_io.raised = "SerialException" =>
           flow_result = "serial_communication_error"
    /\ probe_io.raised = "UnicodeDecodeError" =>
           flow_result = "invalid_device_response"
    /\ probe_io.raised = "ValueError" => flow_result = "data_format_error"
    /\ probe_io.raised = "OSError" => flow_result = "os_error"
    /\ flow_result = "device_unresponsive" => probe_io.raised = "none"

\* C22: no failed setup leaves an open transport: when async_setup_entry has
\* returned False, whether connect itself failed, a later initial query
\* failed, or the readiness wait ran out, the connection the attempt opened
\* is no longer open.
C22_FailedSetupClosesConnection ==
    pc = "setup_failed" => transport # "open"

\* C25: async_send_command is all-or-nothing on validation: called with a
\* list of which at least one command is not in VALID_COMMANDS, it raises
\* HomeAssistantError and has invoked no device operation, not even for the
\* commands that precede the unknown one.
C25_SendCommandAllOrNothing ==
    (\E i \in DOMAIN sent.command : sent.command[i] \notin VALID_COMMANDS) =>
        /\ sent.raised = "HomeAssistantError"
        /\ sent.executed = <<>>

\* C23: reading native_value of any sensor never raises, in every state of
\* the State Model, current_ratio unset or not a key of ratios included: the
\* width, height and diagonal sensors and the per-motor sensors return a
\* value or None.
C23_NativeValueNeverRaises == reading.raised = "none"

\* The motor identifiers of a raw mask_ids string: its characters other than
\* separators, in order, in upper case.
Separators == {",", " "}
IsMotorLetter(c) == c \notin Separators
MotorIds(raw) == upper(SelectSeq(raw, IsMotorLetter))

\* The sensors setup created with the given key.
WithKey(key) == {i \in DOMAIN sensors : sensors[i].key = key}

\* C24: sensor setup creates, for each motor identifier of mask_ids, in the
\* "TBL" and in the "T,B,L" form alike, exactly one position sensor and one
\* adjustment sensor, none for a separator character, and the unique ids of
\* all sensors created for the device are pairwise distinct.
C24_OneSensorPairPerMotorId ==
    sensors # <<>> =>
        /\ \A id \in Range(MotorIds(system_info.mask_ids)) :
             /\ Cardinality(WithKey(<<"motor", id, "position">>)) = 1
             /\ Cardinality(WithKey(<<"motor", id, "adjustment">>)) = 1
        /\ \A i \in DOMAIN sensors :
             sensors[i].motor_id # None =>
                 sensors[i].motor_id[1] \notin Separators
        /\ \A i, j \in DOMAIN sensors :
             i # j => UniqueId(sensors[i]) # UniqueId(sensors[j])

\* A position or adjustment sensor of a motor label.
IsMotorSensor(d) ==
    /\ Len(d.key) = 3
    /\ d.key[3] \in {"position", "adjustment"}

\* What the State Model stores for the sensor of motor label X: the field of
\* ratios[current_ratio].motors[i], i the 1-based place of X among the
\* motor identifiers; None where one of the lookups has no entry.
StoredMotorValue(d) ==
    LET ids == MotorIds(system_info.mask_ids)
        X == d.motor_id[1]
        ratios == mask_ratio_settings.ratios
        current_ratio == mask_ratio_settings.current_ratio
    IN  IF current_ratio = None \/ current_ratio[1] \notin DOMAIN ratios
        THEN None
        ELSE IF X \notin Range(ids) THEN None
        ELSE LET i == CHOOSE k \in DOMAIN ids :
                          ids[k] = X /\ \A j \in 1..(k - 1) : ids[j] # X
                 motors == ratios[current_ratio[1]].motors
             IN  IF i \notin DOMAIN motors THEN None
                 ELSE IF d.key[3] = "position" THEN Some(motors[i].position)
                 ELSE Some(motors[i].adjustment)

\* C21: native_value of the position (adjustment) sensor of motor label X
\* returns the position (adjustment) stored in
\* ratios[current_ratio].motors[i], i the 1-based index of X in mask_ids, for
\* the "TBL" and the "T,B,L" form of mask_ids; it returns None when
\* current_ratio is not a key of ratios, mask_ids is empty, X is not in
\* mask_ids, or motors has no entry for i.
C21_MotorSensorReadsStoredValue ==
    [][\A i \in DOMAIN sensors :
           (native_value(i) /\ IsMotorSensor(sensors[i])) =>
               /\ reading'.raised = "none"
               /\ reading'.value = StoredMotorValue(sensors[i])]_vars

\* C21, its case: with mask_ids "T,B,L" and ratio 2 selected, the position
\* sensor of B returned the position of motor 2 of ratio 2.
C21_Witness ==
    /\ system_info.mask_ids = <<"T", ",", "B", ",", "L">>
    /\ mask_ratio_settings.current_ratio = Some(2)
    /\ reading.key = <<"motor", "B", "position">>
    /\ reading.value = Some(11)

=============================================================================
